---- MODULE Spec2Model ----
(***************************************************************************)
(* Model of three pieces of denoflare:                                     *)
(*   - cli/config_loader.ts : loadConfig, findConfigFilePath,              *)
(*     resolveBinding, resolveProfile / resolveProfileOpt / findProfile    *)
(*   - tailweb/tailweb_worker.ts : the tail web fetch handler              *)
(*   - ApiKVNamespace : the remote KV namespace adapter                    *)
(*                                                                         *)
(* JavaScript strings are sequences of one-character strings, so that      *)
(* startsWith / indexOf / includes / replace / trim are computed and not   *)
(* assumed.  Every exported operation is one action (the directory walk of *)
(* findConfigFilePath is one action per loop iteration); what the          *)
(* operation gets from its environment (file system, process environment,  *)
(* Cloudflare API, regular expression engine) is chosen with \E.           *)
(***************************************************************************)
EXTENDS Integers, Sequences, FiniteSets, TLC

VARIABLES
    op,      \* the operation invoked ("idle" before any call)
    pc,      \* position inside the operation: "idle", "walk", "load", "done"
    inp,     \* arguments and environment of the invocation
    out,     \* outcome: [kind |-> "return" | "throw", value |-> ...]
    ext,     \* external calls made by the invocation, in order
    dir,     \* findConfigFilePath: the directory examined next (its depth below the root)
    configFilePath  \* loadConfig: the path of the config file to load, once known

vars == <<op, pc, inp, out, ext, dir, configFilePath>>

\* ------------------------------------------------------------------------
\* JavaScript values and string operations
\* ------------------------------------------------------------------------

Undefined == [t |-> "undefined", v |-> <<>>]
Str(s) == [t |-> "string", v |-> s]
NonString == [t |-> "boolean", v |-> <<>>]

IsString(x) == x.t = "string"

Return(v) == [kind |-> "return", value |-> v]
Throw(e) == [kind |-> "throw", value |-> e]
NoOutcome == [kind |-> "none", value |-> "none"]

\* String.prototype.startsWith
StartsWith(s, p) == Len(s) >= Len(p) /\ SubSeq(s, 1, Len(p)) = p

\* the 1-based positions at which p occurs in s
Occurrences(s, p) ==
    {i \in 1..(Len(s) - Len(p) + 1) : SubSeq(s, i, i + Len(p) - 1) = p}

\* String.prototype.includes
Includes(s, p) == Occurrences(s, p) # {}

Min(S) == CHOOSE m \in S : \A n \in S : m <= n

\* String.prototype.indexOf: 0-based, -1 when absent
IndexOf(s, p) == IF Includes(s, p) THEN Min(Occurrences(s, p)) - 1 ELSE -1

\* String.prototype.substring(from) and substring(from, to), 0-based
SubstringFrom(s, from) == SubSeq(s, from + 1, Len(s))
Substring(s, from, to) == SubSeq(s, from + 1, to)

\* ------------------------------------------------------------------------
\* resolveString / resolveProfileComponents  (config_loader.ts 182-210)
\* ------------------------------------------------------------------------

RegexPrefix == <<"r", "e", "g", "e", "x", ":">>
DotAllPrefix == <<"(", "?", "s", ")">>

\* The outcome of Deno.readTextFile(path) followed by txt.match(new RegExp(pattern, flags)):
\* the file is missing, the pattern does not match, or it matches with capture group 1.
NotFound == "NotFound"
NoMatch == "NoMatch"
Captured == <<"K">>
RegexOutcomes == {NotFound, NoMatch, Captured}

resolveString(string, rx) ==
    IF StartsWith(string, RegexPrefix)
    THEN LET str == SubstringFrom(string, Len(RegexPrefix))
             i == IndexOf(str, <<":">>)
         IN  IF i > -1
             THEN LET path == Substring(str, 0, i)
                      pattern0 == SubstringFrom(str, i + 1)
                      dotAll == StartsWith(pattern0, DotAllPrefix)
                      pattern == IF dotAll THEN SubstringFrom(pattern0, 4) ELSE pattern0
                      m == rx[<<path, pattern, dotAll>>]
                  IN  IF m = NotFound THEN Throw("NotFound")
                      ELSE IF m = NoMatch THEN Throw("resolveString: Failed to resolve")
                      ELSE Return(m)
             ELSE Return(string)
    ELSE Return(string)

resolveProfileComponents(profile, rx) ==
    LET accountId == resolveString(profile.accountId, rx)
        apiToken == resolveString(profile.apiToken, rx)
    IN  IF accountId.kind = "throw" THEN accountId
        ELSE IF apiToken.kind = "throw" THEN apiToken
        ELSE Return([accountId |-> accountId.value, apiToken |-> apiToken.value])

\* ------------------------------------------------------------------------
\* findProfile / resolveProfile / resolveProfileOpt  (config_loader.ts 84-94, 139-180)
\* ------------------------------------------------------------------------

LowerLetters == {"a", "b", "d", "e", "f", "g", "n", "p", "q", "r", "v", "x", "z"}
NameTailChars == LowerLetters \cup {"0", "1", "2", "_", "-"}

\* common/config_validation.ts (not among the sources): a lower-case letter followed
\* by at most 36 lower-case letters, digits, '_' or '-'
isValidProfileName(name) ==
    /\ Len(name) >= 1
    /\ Len(name) <= 37
    /\ name[1] \in LowerLetters
    /\ \A i \in 2..Len(name) : name[i] \in NameTailChars

\* cli/cli_common.ts (not among the sources): the option's value, a string or undefined
parseOptionalStringOption(name, options) == options[name]

\* script && script.profile
ScriptProfileTruthy(script) ==
    /\ script.t = "script"
    /\ script.profile.t = "string"
    /\ Len(script.profile.v) > 0

\* the call of listAccounts and what becomes of its answer (lines 148-158):
\* every error inside the try block is rethrown as 'Failed locating account-id'
LocateAccount(apiToken, la) ==
    IF la.kind = "throw" THEN Throw("Failed locating account-id from api-token")
    ELSE IF Len(la.value) = 0 THEN Throw("Failed locating account-id from api-token")
    ELSE IF Len(la.value) > 1 THEN Throw("Failed locating account-id from api-token")
    ELSE Return([accountId |-> la.value[1], apiToken |-> apiToken, default |-> "absent"])

\* a faulty variant of DefaultProfile: any marked profile, or else any profile, is taken
DefaultProfileLenient(profiles) ==
    LET names == DOMAIN profiles
        defaultNames == {n \in names : profiles[n].default = "true"}
    IN  IF Cardinality(names) = 0 THEN Return(Undefined)
        ELSE IF Cardinality(defaultNames) >= 1
             THEN Return(profiles[CHOOSE n \in defaultNames : TRUE])
        ELSE IF Cardinality(names) >= 1
             THEN Return(profiles[CHOOSE n \in names : TRUE])
        ELSE Throw("Unable to find profile, wrong number marked as default")

\* a faulty variant of DefaultProfile: a single profile is not taken unless marked default
DefaultProfileStrict(profiles) ==
    LET names == DOMAIN profiles
        defaultNames == {n \in names : profiles[n].default = "true"}
    IN  IF Cardinality(names) = 0 THEN Return(Undefined)
        ELSE IF Cardinality(defaultNames) = 1
             THEN Return(profiles[CHOOSE n \in defaultNames : TRUE])
        ELSE Throw("Unable to find profile, wrong number marked as default")

\* lines 174-179: no --profile, no script profile
DefaultProfile(profiles) ==
    LET names == DOMAIN profiles
        defaultNames == {n \in names : profiles[n].default = "true"}
    IN  IF Cardinality(names) = 0 THEN Return(Undefined)
        ELSE IF Cardinality(defaultNames) = 1
             THEN Return(profiles[CHOOSE n \in defaultNames : TRUE])
        ELSE IF Cardinality(names) = 1
             THEN Return(profiles[CHOOSE n \in names : TRUE])
        ELSE Throw("Unable to find profile, wrong number marked as default")

\* lines 162-167: --profile given
OptionProfile(profiles, optionProfileName) ==
    IF ~IsString(optionProfileName) \/ ~isValidProfileName(optionProfileName.v)
    THEN Throw("Bad profile name")
    ELSE IF optionProfileName.v \notin DOMAIN profiles
    THEN Throw("Unable to find profile in config")
    ELSE Return(profiles[optionProfileName.v])

\* lines 168-173: the script declares a profile
ScriptProfile(profiles, script) ==
    IF ~isValidProfileName(script.profile.v)
    THEN Throw("Bad profile name")
    ELSE IF script.profile.v \notin DOMAIN profiles
    THEN Throw("Unable to find profile in config")
    ELSE Return(profiles[script.profile.v])

\* whether findProfile calls listAccounts (an api-token without an account-id)
CallsListAccounts(options) ==
    LET accountId == parseOptionalStringOption("account-id", options)
        apiToken == parseOptionalStringOption("api-token", options)
    IN  /\ IsString(apiToken) /\ Len(apiToken.v) > 0
        /\ ~(IsString(accountId) /\ Len(accountId.v) > 0)

\* a faulty variant of findProfile: the script's profile is tried before --profile
findProfileScriptFirst(config, options, script, la) ==
    LET accountId == parseOptionalStringOption("account-id", options)
        apiToken == parseOptionalStringOption("api-token", options)
    IN  IF IsString(apiToken) /\ Len(apiToken.v) > 0
        THEN IF IsString(accountId) /\ Len(accountId.v) > 0
             THEN Return([accountId |-> accountId.v, apiToken |-> apiToken.v,
                          default |-> "absent"])
             ELSE LocateAccount(apiToken.v, la)
        ELSE IF ScriptProfileTruthy(script)
        THEN ScriptProfile(config.profiles, script)
        ELSE IF options["profile"] # Undefined
        THEN OptionProfile(config.profiles, options["profile"])
        ELSE DefaultProfile(config.profiles)

findProfile(config, options, script, la) ==
    LET accountId == parseOptionalStringOption("account-id", options)
        apiToken == parseOptionalStringOption("api-token", options)
    IN  IF IsString(apiToken) /\ Len(apiToken.v) > 0
        THEN IF IsString(accountId) /\ Len(accountId.v) > 0
             THEN Return([accountId |-> accountId.v, apiToken |-> apiToken.v,
                          default |-> "absent"])
             ELSE LocateAccount(apiToken.v, la)
        ELSE IF options["profile"] # Undefined
        THEN OptionProfile(config.profiles, options["profile"])
        ELSE IF ScriptProfileTruthy(script)
        THEN ScriptProfile(config.profiles, script)
        ELSE DefaultProfile(config.profiles)

resolveProfile(config, options, script, la, rx) ==
    LET profile == findProfile(config, options, script, la)
    IN  IF profile.kind = "throw" THEN profile
        ELSE IF profile.value = Undefined
        THEN Throw("Unable to find profile, no profiles in config")
        ELSE resolveProfileComponents(profile.value, rx)

resolveProfileOpt(config, options, script, la, rx) ==
    LET profile == findProfile(config, options, script, la)
    IN  IF profile.kind = "throw" THEN profile
        ELSE IF profile.value = Undefined THEN Return(Undefined)
        ELSE resolveProfileComponents(profile.value, rx)

\* the file reads and regular expression matches resolveString makes, with their results
resolveStringReads(string, rx) ==
    IF StartsWith(string, RegexPrefix) /\ IndexOf(SubstringFrom(string, Len(RegexPrefix)), <<":">>) > -1
    THEN LET str == SubstringFrom(string, Len(RegexPrefix))
             i == IndexOf(str, <<":">>)
             pattern0 == SubstringFrom(str, i + 1)
             dotAll == StartsWith(pattern0, DotAllPrefix)
             key == <<Substring(str, 0, i),
                      IF dotAll THEN SubstringFrom(pattern0, 4) ELSE pattern0, dotAll>>
         IN  <<[call |-> "readTextFile+match", arg |-> key, result |-> rx[key]] >>
    ELSE <<>>

resolveProfileComponentsReads(profile, rx) ==
    resolveStringReads(profile.accountId, rx)
        \o (IF resolveString(profile.accountId, rx).kind = "throw" THEN <<>>
            ELSE resolveStringReads(profile.apiToken, rx))

\* the external calls of resolveProfile / resolveProfileOpt, in order
resolveProfileCalls(config, options, script, la, rx) ==
    LET profile == findProfile(config, options, script, la)
    IN  (IF CallsListAccounts(options)
         THEN <<[call |-> "listAccounts",
                 arg |-> parseOptionalStringOption("api-token", options).v, result |-> la] >>
         ELSE <<>>)
        \o (IF profile.kind = "return" /\ profile.value # Undefined
            THEN resolveProfileComponentsReads(profile.value, rx)
            ELSE <<>>)

\* ------------------------------------------------------------------------
\* Inputs of profile resolution
\* ------------------------------------------------------------------------

\* the largest number of profiles in a config
MaxProfiles == 2

NamePool == << <<"p">>, <<"q">>, <<"d", "-", "1">>, <<"e", "_", "2">> >>
ProfileNames == {NamePool[i] : i \in 1..MaxProfiles}

RefToken == RegexPrefix \o <<"f", ":", "(", "?", "s", ")", "x">>
RefKeys == {<< <<"f">>, <<"x">>, TRUE >>}
RegexOracles == [RefKeys -> RegexOutcomes]
NoRegexOracle == [k \in RefKeys |-> NotFound]

\* the profiles a config may give to name n
ProfilesFor(n) ==
    {[accountId |-> <<"A">> \o n, apiToken |-> <<"T">> \o n, default |-> d] :
        d \in {"absent", "true", "false"}}
    \cup {[accountId |-> <<"A">> \o n, apiToken |-> RefToken, default |-> "true"],
          [accountId |-> <<"A">> \o n, apiToken |-> RefToken, default |-> "absent"],
          [accountId |-> RegexPrefix \o n, apiToken |-> <<"T">> \o n, default |-> "absent"]}

ProfileMaps ==
    UNION {{f \in [N -> UNION {ProfilesFor(n) : n \in N}] : \A n \in N : f[n] \in ProfilesFor(n)} :
            N \in SUBSET ProfileNames}

Configs == {[profiles |-> f] : f \in ProfileMaps}

OptionAccountIds == {Undefined, Str(<<>>), Str(<<"A", "c">>)}
OptionApiTokens == {Undefined, Str(<<>>), Str(<<"T", "c">>)}
OptionProfileNames == {Undefined, Str(<<"p">>), Str(<<"z">>), Str(<<"P">>), NonString}

OptionSets ==
    {("account-id" :> a) @@ ("api-token" :> t) @@ ("profile" :> n) :
        a \in OptionAccountIds, t \in OptionApiTokens, n \in OptionProfileNames}

NoScript == [t |-> "undefined", profile |-> Undefined]
ScriptWith(profile) == [t |-> "script", profile |-> profile]
Scripts == {NoScript, ScriptWith(Undefined), ScriptWith(Str(<<>>)), ScriptWith(Str(<<"q">>)),
            ScriptWith(Str(<<"z">>)), ScriptWith(Str(<<"Q">>))}

ListAccountsOutcomes ==
    {Throw("api error"), Return(<<>>), Return(<< <<"L", "1">> >>),
     Return(<< <<"L", "1">>, <<"L", "2">> >>)}
NotCalled == [kind |-> "none", value |-> <<>>]

\* the answers the environment can give to the calls this invocation makes
ListAccountsAnswers(options) ==
    IF CallsListAccounts(options) THEN ListAccountsOutcomes ELSE {NotCalled}

RegexAnswers(config, options, script, la) ==
    LET profile == findProfile(config, options, script, la)
    IN  IF /\ profile.kind = "return"
           /\ profile.value # Undefined
           /\ resolveProfileComponentsReads(profile.value, NoRegexOracle) # <<>>
        THEN RegexOracles
        ELSE {NoRegexOracle}

\* ------------------------------------------------------------------------
\* Initial state and the profile resolution actions
\* ------------------------------------------------------------------------

Init ==
    /\ op = "idle"
    /\ pc = "idle"
    /\ inp = [none |-> TRUE]
    /\ out = NoOutcome
    /\ ext = <<>>
    /\ dir = 0
    /\ configFilePath = Undefined

ResolveProfileCall ==
    /\ pc = "idle"
    /\ \E config \in Configs, options \in OptionSets, script \in Scripts :
         \E la \in ListAccountsAnswers(options) :
           \E rx \in RegexAnswers(config, options, script, la) :
             /\ inp' = [config |-> config, options |-> options, script |-> script]
             /\ out' = resolveProfile(config, options, script, la, rx)
             /\ ext' = resolveProfileCalls(config, options, script, la, rx)
    /\ op' = "resolveProfile"
    /\ pc' = "done"
    /\ UNCHANGED <<dir, configFilePath>>

ResolveProfileOptCall ==
    /\ pc = "idle"
    /\ \E config \in Configs, options \in OptionSets, script \in Scripts :
         \E la \in ListAccountsAnswers(options) :
           \E rx \in RegexAnswers(config, options, script, la) :
             /\ inp' = [config |-> config, options |-> options, script |-> script]
             /\ out' = resolveProfileOpt(config, options, script, la, rx)
             /\ ext' = resolveProfileCalls(config, options, script, la, rx)
    /\ op' = "resolveProfileOpt"
    /\ pc' = "done"
    /\ UNCHANGED <<dir, configFilePath>>

NextProfile == ResolveProfileCall \/ ResolveProfileOptCall

SpecProfile == Init /\ [][NextProfile]_vars

\* ------------------------------------------------------------------------
\* Claims about profile resolution
\* ------------------------------------------------------------------------

ProfileCallDone == pc = "done" /\ op \in {"resolveProfile", "resolveProfileOpt"}

\* the answers the environment gave to this invocation, read back from its call log
RxOf(log) ==
    [k \in RefKeys |->
        IF \E i \in DOMAIN log : log[i].call = "readTextFile+match" /\ log[i].arg = k
        THEN log[CHOOSE i \in DOMAIN log :
                    log[i].call = "readTextFile+match" /\ log[i].arg = k].result
        ELSE NotFound]

LaOf(log) ==
    IF \E i \in DOMAIN log : log[i].call = "listAccounts"
    THEN log[CHOOSE i \in DOMAIN log : log[i].call = "listAccounts"].result
    ELSE NotCalled

NonEmptyString(x) == x.t = "string" /\ Len(x.v) > 0

Designates(profile) == [d |-> "profile", profile |-> profile]
DesignatesNone == [d |-> "none", profile |-> "none"]
DesignatesFailure == [d |-> "fail", profile |-> "none"]

\* the profile a name designates in the config: the entry of that name, or a failure
NamedDesignation(name, profiles) ==
    IF name.t = "string" /\ name.v \in DOMAIN profiles
    THEN Designates(profiles[name.v]) ELSE DesignatesFailure

\* the single / default profile of the config: none in an empty config, the only profile
\* marked default, else the only profile, else a failure
SingleOrDefaultDesignation(profiles) ==
    LET marked == {n \in DOMAIN profiles : profiles[n].default = "true"}
    IN  IF DOMAIN profiles = {} THEN DesignatesNone
        ELSE IF \E n \in marked : marked = {n} THEN Designates(profiles[CHOOSE n \in marked : TRUE])
        ELSE IF \E n \in DOMAIN profiles : DOMAIN profiles = {n}
             THEN Designates(profiles[CHOOSE n \in DOMAIN profiles : TRUE])
        ELSE DesignatesFailure

\* what the explicit command line credentials designate: the pair as given, or the
\* api-token with the one account listAccounts reports for it
ExplicitDesignation(options, la) ==
    IF NonEmptyString(options["account-id"])
    THEN Designates([accountId |-> options["account-id"].v,
                     apiToken |-> options["api-token"].v, default |-> "absent"])
    ELSE IF la.kind = "return" /\ Len(la.value) = 1
    THEN Designates([accountId |-> la.value[1],
                     apiToken |-> options["api-token"].v, default |-> "absent"])
    ELSE DesignatesFailure

\* the designation of the first supplied source, given when the explicit source counts
\* as supplied
PrecedenceDesignation(explicitSupplied) ==
    IF explicitSupplied THEN ExplicitDesignation(inp.options, LaOf(ext))
    ELSE IF inp.options["profile"] # Undefined
    THEN NamedDesignation(inp.options["profile"], inp.config.profiles)
    ELSE IF ScriptProfileTruthy(inp.script)
    THEN NamedDesignation(inp.script.profile, inp.config.profiles)
    ELSE SingleOrDefaultDesignation(inp.config.profiles)

\* the outcome follows a designation: a failure fails, no profile is an error of
\* resolveProfile and undefined from resolveProfileOpt, a profile is returned with its
\* components resolved
OutcomeFollows(designation) ==
    IF designation.d = "fail" THEN out.kind = "throw"
    ELSE IF designation.d = "none"
    THEN IF op = "resolveProfile" THEN out.kind = "throw" ELSE out = Return(Undefined)
    ELSE out = resolveProfileComponents(designation.profile, RxOf(ext))

\* C1 as stated: the explicit source is --api-token together with --account-id; the
\* outcome is decided by the first supplied source of: explicit credentials, --profile,
\* the script's profile, the single/default profile of the config
C1_Original ==
    ProfileCallDone =>
        OutcomeFollows(PrecedenceDesignation(
            NonEmptyString(inp.options["api-token"])
                /\ NonEmptyString(inp.options["account-id"])))

\* C1 amended: the explicit source is supplied whenever --api-token is non-empty (with
\* --account-id the pair is used as given, without it the account is located through
\* listAccounts, failing unless exactly one is found); the outcome is decided by the
\* first supplied source alone, in the order explicit credentials, --profile, the
\* script's profile, the single/default profile of the config
C1_Precedence ==
    ProfileCallDone =>
        OutcomeFollows(PrecedenceDesignation(NonEmptyString(inp.options["api-token"])))

\* explicit credentials, --profile and a script profile all supplied: explicit wins
C1_Witness ==
    /\ ProfileCallDone
    /\ NonEmptyString(inp.options["api-token"])
    /\ inp.options["profile"] = Str(<<"z">>)
    /\ ScriptProfileTruthy(inp.script)
    /\ out.kind = "return"
    /\ out.value.apiToken = inp.options["api-token"].v

\* no explicit credentials, no --profile, no profile declared by the script
OnlyConfigSupplied ==
    /\ ProfileCallDone
    /\ ~NonEmptyString(inp.options["api-token"])
    /\ inp.options["profile"] = Undefined
    /\ ~ScriptProfileTruthy(inp.script)

\* a 'regex:<path>:<pattern>' value, which resolveString replaces by what it reads
IsReference(string) ==
    /\ StartsWith(string, RegexPrefix)
    /\ \E i \in (Len(RegexPrefix) + 1)..Len(string) : string[i] = ":"

Literal(profile) == [accountId |-> profile.accountId, apiToken |-> profile.apiToken]

\* the config holds exactly one profile, and it carries no default flag
SingleUnflaggedProfile ==
    /\ OnlyConfigSupplied
    /\ ~NonEmptyString(inp.options["account-id"])
    /\ \E n \in DOMAIN inp.config.profiles :
          /\ DOMAIN inp.config.profiles = {n}
          /\ inp.config.profiles[n].default = "absent"

TheSingleProfile == inp.config.profiles[CHOOSE n \in DOMAIN inp.config.profiles : TRUE]

\* C2 as stated: a config with exactly one profile, carrying no default flag, and no
\* other source: the call returns that profile's accountId and apiToken
C2_Original ==
    SingleUnflaggedProfile => out = Return(Literal(TheSingleProfile))

\* C2 amended: the call returns that profile's accountId and apiToken as resolved by
\* resolveString: unchanged unless the value is a 'regex:<path>:<pattern>' reference,
\* which is replaced by the captured text, the call failing when the file cannot be
\* read or the pattern does not match
C2_SingleProfile ==
    SingleUnflaggedProfile =>
        /\ out = resolveProfileComponents(TheSingleProfile, RxOf(ext))
        /\ (~IsReference(TheSingleProfile.accountId) /\ ~IsReference(TheSingleProfile.apiToken))
              => out = Return(Literal(TheSingleProfile))
        /\ out.kind = "throw" =>
              \E i \in DOMAIN ext : ext[i].result \in {NotFound, NoMatch}

C2_Witness ==
    /\ SingleUnflaggedProfile
    /\ op = "resolveProfile"
    /\ out = Return(Literal(TheSingleProfile))

\* the config holds more than one profile and is the only source
SeveralProfiles ==
    /\ OnlyConfigSupplied
    /\ ~NonEmptyString(inp.options["account-id"])
    /\ Cardinality(DOMAIN inp.config.profiles) > 1

MarkedDefault == {n \in DOMAIN inp.config.profiles : inp.config.profiles[n].default = "true"}

\* C3 as stated: with more than one profile and no other source, the call succeeds if
\* and only if exactly one profile is marked default, and then returns that profile;
\* with none or several marked default both resolveProfile and resolveProfileOpt fail
C3_Original ==
    SeveralProfiles =>
        /\ out.kind = "return" <=> Cardinality(MarkedDefault) = 1
        /\ out.kind = "return" =>
              out = resolveProfileComponents(
                        inp.config.profiles[CHOOSE n \in MarkedDefault : TRUE], RxOf(ext))
        /\ Cardinality(MarkedDefault) # 1 => out.kind = "throw"

\* C3 amended: with more than one profile and no other source, a profile is selected
\* if and only if exactly one profile is marked default: the call then returns that
\* profile's accountId and apiToken as resolved by resolveString, and fails only when
\* that resolution fails; with none or several marked default both resolveProfile and
\* resolveProfileOpt fail, returning neither a profile nor undefined
C3_DefaultProfile ==
    SeveralProfiles =>
        /\ Cardinality(MarkedDefault) = 1 =>
              /\ out = resolveProfileComponents(
                           inp.config.profiles[CHOOSE n \in MarkedDefault : TRUE], RxOf(ext))
              /\ out.kind = "throw" =>
                    \E i \in DOMAIN ext : ext[i].result \in {NotFound, NoMatch}
        /\ Cardinality(MarkedDefault) # 1 => out.kind = "throw"

\* two profiles, none marked default: resolveProfileOpt fails
C3_Witness ==
    /\ SeveralProfiles
    /\ MarkedDefault = {}
    /\ op = "resolveProfileOpt"
    /\ out.kind = "throw"

\* ------------------------------------------------------------------------
\* resolveBinding  (config_loader.ts 60-82)
\* ------------------------------------------------------------------------

LocalPortPlaceholder == <<"$", "{", "l", "o", "c", "a", "l", "P", "o", "r", "t", "}">>
PushIdPlaceholder == <<"$", "{", "p", "u", "s", "h", "I", "d", "}">>
AwsPrefix == <<"a", "w", "s", ":">>

\* the replacement text of String.prototype.replace: $$ is a dollar, $& the matched
\* text, $` the text before the match, $' the text after it
RECURSIVE GetSubstitution(_, _, _, _)
GetSubstitution(r, matched, before, after) ==
    IF r = <<>> THEN <<>>
    ELSE IF r[1] = "$" /\ Len(r) >= 2 /\ r[2] \in {"$", "&", "`", "'"}
    THEN (CASE r[2] = "$" -> <<"$">>
            [] r[2] = "&" -> matched
            [] r[2] = "`" -> before
            [] r[2] = "'" -> after)
         \o GetSubstitution(SubSeq(r, 3, Len(r)), matched, before, after)
    ELSE <<r[1]>> \o GetSubstitution(Tail(r), matched, before, after)

\* String.prototype.replace with a string pattern: the first occurrence only
Replace(s, p, r) ==
    IF ~Includes(s, p) THEN s
    ELSE LET i == Min(Occurrences(s, p))
             before == SubSeq(s, 1, i - 1)
             after == SubSeq(s, i + Len(p), Len(s))
         IN  before \o GetSubstitution(r, p, before, after) \o after

DigitChars == <<"0", "1", "2", "3", "4", "5", "6", "7", "8", "9">>

\* Number.prototype.toString of a non-negative integer
RECURSIVE NumberToString(_)
NumberToString(n) ==
    IF n < 10 THEN <<DigitChars[n + 1]>>
    ELSE NumberToString(n \div 10) \o <<DigitChars[(n % 10) + 1]>>

\* common/config.ts (not among the sources): the binding's variant
isSecretBinding(binding) == binding.kind = "secret"
isTextBinding(binding) == binding.kind = "text"

\* /^aws:(.*?)$/ : 'aws:' followed by text without a line break
AwsMatch(secret) ==
    /\ StartsWith(secret, AwsPrefix)
    /\ \A i \in 1..Len(secret) : secret[i] # "\n"

\* whether resolveBinding calls loadAwsCredentialsForProfile
CallsLoadAwsCredentials(binding) == isSecretBinding(binding) /\ AwsMatch(binding.secret)

\* aws is the outcome of loadAwsCredentialsForProfile(m[1]) (lines 212-235)
resolveBinding(binding, localPort, pushId, aws) ==
    IF isSecretBinding(binding)
    THEN IF AwsMatch(binding.secret)
         THEN IF aws.kind = "throw" THEN aws
              ELSE Return([kind |-> "secret",
                           secret |-> aws.value.accessKeyId \o <<":">>
                                        \o aws.value.secretAccessKey])
         ELSE Return(binding)
    ELSE IF isTextBinding(binding)
    THEN IF localPort = Undefined /\ Includes(binding.value, LocalPortPlaceholder)
         THEN Throw("Cannot resolve: localPort")
         ELSE LET value1 == IF localPort = Undefined THEN binding.value
                            ELSE Replace(binding.value, LocalPortPlaceholder,
                                         NumberToString(localPort.v))
              IN  IF pushId = Undefined /\ Includes(value1, PushIdPlaceholder)
                  THEN Throw("Cannot resolve: pushId")
                  ELSE Return([kind |-> "text",
                               value |-> IF pushId = Undefined THEN value1
                                         ELSE Replace(value1, PushIdPlaceholder, pushId.v)])
    ELSE Return(binding)

\* --- inputs ---

\* the largest number of parts a text binding's value is made of
MaxParts == 2

ValueParts == {LocalPortPlaceholder, PushIdPlaceholder, <<"a">>, <<"$">>}

RECURSIVE Flatten(_)
Flatten(parts) == IF parts = <<>> THEN <<>> ELSE Head(parts) \o Flatten(Tail(parts))

TextValues == {Flatten(parts) : parts \in UNION {[1..n -> ValueParts] : n \in 0..MaxParts}}

Num(n) == [t |-> "number", v |-> n]
LocalPorts == {Undefined, Num(0), Num(8080)}
PushIds == {Undefined, Str(<<"i", "d">>), Str(<<"$", "&">>), Str(LocalPortPlaceholder)}

Bindings ==
    {[kind |-> "text", value |-> v] : v \in TextValues}
    \cup {[kind |-> "secret", secret |-> x] :
            x \in {AwsPrefix \o <<"d">>, <<"s">>, <<"x">> \o AwsPrefix}}
    \cup {[kind |-> "kvNamespace", kvNamespace |-> <<"n">>]}

AwsOutcomes ==
    {Throw("No aws credentials found for profile"), Throw("NotFound"),
     Return([accessKeyId |-> <<"I">>, secretAccessKey |-> <<"S">>])}

AwsAnswers(binding) == IF CallsLoadAwsCredentials(binding) THEN AwsOutcomes ELSE {NotCalled}

ResolveBindingCall ==
    /\ pc = "idle"
    /\ \E binding \in Bindings, localPort \in LocalPorts, pushId \in PushIds :
         \E aws \in AwsAnswers(binding) :
           /\ inp' = [binding |-> binding, localPort |-> localPort, pushId |-> pushId]
           /\ out' = resolveBinding(binding, localPort, pushId, aws)
           /\ ext' = IF CallsLoadAwsCredentials(binding)
                     THEN <<[call |-> "loadAwsCredentialsForProfile",
                             arg |-> SubstringFrom(binding.secret, Len(AwsPrefix)),
                             result |-> aws]>>
                     ELSE <<>>
    /\ op' = "resolveBinding"
    /\ pc' = "done"
    /\ UNCHANGED <<dir, configFilePath>>

NextBinding == ResolveBindingCall

SpecBinding == Init /\ [][NextBinding]_vars

\* ------------------------------------------------------------------------
\* Claims about resolveBinding
\* ------------------------------------------------------------------------

\* a text binding whose only placeholder is ${localPort}, with a push id (if any) that
\* has no '$' in it
LocalPortBinding ==
    /\ pc = "done" /\ op = "resolveBinding"
    /\ inp.binding.kind = "text"
    /\ Includes(inp.binding.value, LocalPortPlaceholder)
    /\ ~Includes(inp.binding.value, PushIdPlaceholder)
    /\ inp.pushId # Undefined => ~Includes(inp.pushId.v, <<"$">>)

\* C4: a text binding whose value contains ${localPort}: without a localPort the call
\* fails with 'Cannot resolve: localPort'; with a localPort it returns a text binding
\* that holds the decimal port number and in which no ${localPort} placeholder remains
C4_Original ==
    LocalPortBinding =>
        IF inp.localPort = Undefined
        THEN out = Throw("Cannot resolve: localPort")
        ELSE /\ out.kind = "return"
             /\ out.value.kind = "text"
             /\ Includes(out.value.value, NumberToString(inp.localPort.v))
             /\ ~Includes(out.value.value, LocalPortPlaceholder)

\* ------------------------------------------------------------------------
\* The tail web handler  (tailweb_worker.ts 6-29)
\* ------------------------------------------------------------------------

HttpsScheme == <<"h", "t", "t", "p", "s", ":", "/", "/">>
FetchPrefix == <<"/", "f", "e", "t", "c", "h", "/">>
AppJsPath == <<"/", "a", "p", "p", ".", "j", "s">>
ApiHost == <<"a", "p", "i", ".", "c", "l", "o", "u", "d", "f", "l", "a", "r", "e", ".", "c", "o", "m">>
ApiOrigin == HttpsScheme \o ApiHost
CfPrefix == <<"c", "f", "-">>
CfConnectingIp == <<"c", "f", "-", "c", "o", "n", "n", "e", "c", "t", "i", "n", "g", "-", "i", "p">>

Max(S) == CHOOSE m \in S : \A n \in S : m >= n

IsDigits(s) == \A i \in 1..Len(s) : \E d \in 1..Len(DigitChars) : s[i] = DigitChars[d]

InvalidUrl == <<"TypeError: Invalid URL">>

\* new URL(string).origin for an 'https://<authority><path>' string of lower-case
\* letters, digits and the delimiters / \ @ : the authority ends at the first slash,
\* credentials end at its last '@', the port follows the last ':' and is dropped from
\* the origin when empty or 443; a string without host, or with a port that is not a
\* number, is not a URL (new URL throws a TypeError, here InvalidUrl)
UrlOrigin(string) ==
    LET rest == SubstringFrom(string, Len(HttpsScheme))
        slashes == Occurrences(rest, <<"/">>) \cup Occurrences(rest, <<"\\">>)
        authority == IF slashes = {} THEN rest ELSE SubSeq(rest, 1, Min(slashes) - 1)
        ats == Occurrences(authority, <<"@">>)
        hostport == IF ats = {} THEN authority
                    ELSE SubSeq(authority, Max(ats) + 1, Len(authority))
        colons == Occurrences(hostport, <<":">>)
        host == IF colons = {} THEN hostport ELSE SubSeq(hostport, 1, Max(colons) - 1)
        port == IF colons = {} THEN <<>>
                ELSE SubSeq(hostport, Max(colons) + 1, Len(hostport))
    IN  IF host = <<>> \/ Includes(host, <<":">>) \/ ~IsDigits(port) THEN InvalidUrl
        ELSE IF port = <<>> \/ port = <<"4", "4", "3">> THEN HttpsScheme \o host
        ELSE HttpsScheme \o host \o <<":">> \o port

\* a faulty variant of ProxiedHeaders: every header whose name contains 'cf-' is dropped
ProxiedHeadersContaining(headers) ==
    SelectSeq(headers, LAMBDA v : ~Includes(v[1], CfPrefix))

\* line 20: [...request.headers].filter(v => !v[0].startsWith('cf-'))
ProxiedHeaders(headers) ==
    SelectSeq(headers, LAMBDA v : ~StartsWith(v[1], CfPrefix))

\* Headers.prototype.get: the value, or null
HeaderGet(headers, name) ==
    IF \E i \in DOMAIN headers : headers[i][1] = name
    THEN Str(headers[CHOOSE i \in DOMAIN headers : headers[i][1] = name][2])
    ELSE [t |-> "null", v |-> <<>>]

Response(status, contentType, body) ==
    [status |-> status, contentType |-> contentType, body |-> body]

\* whether the handler makes an upstream request, and the request it makes
UpstreamRequest(request) ==
    IF request.pathname = AppJsPath
    THEN <<[call |-> "fetch", url |-> "TAILWEB_APP_DATA", method |-> "GET", headers |-> <<>>]>>
    ELSE IF /\ StartsWith(request.pathname, FetchPrefix)
            /\ UrlOrigin(HttpsScheme \o SubstringFrom(request.pathname, Len(FetchPrefix)))
                 = ApiOrigin
    THEN <<[call |-> "fetch",
            url |-> HttpsScheme \o SubstringFrom(request.pathname, Len(FetchPrefix)),
            method |-> request.method,
            headers |-> ProxiedHeaders(request.headers)]>>
    ELSE <<>>

\* fetch(request, _env, _ctx); upstream is the outcome of the upstream fetch, if made
TailFetch(request, upstream) ==
    IF request.pathname = <<"/">>
    THEN Return(Response(200, "text/html; charset=utf-8", "computeHtml"))
    ELSE IF request.pathname = AppJsPath
    THEN IF upstream.kind = "throw" THEN upstream
         ELSE Return(Response(200, "text/javascript; charset=utf-8", upstream.value.body))
    ELSE IF StartsWith(request.pathname, FetchPrefix)
    THEN LET fetchUrlStr == HttpsScheme \o SubstringFrom(request.pathname, Len(FetchPrefix))
             origin == UrlOrigin(fetchUrlStr)
         IN  IF origin = InvalidUrl THEN Throw("TypeError: Invalid URL")
             ELSE IF origin = ApiOrigin THEN upstream
             ELSE Throw(Response(400, "text/plain;charset=UTF-8", "Unable to fetch"))
    ELSE Return(Response(200, "text/plain;charset=UTF-8",
                         <<"hello", HeaderGet(request.headers, CfConnectingIp)>>))

\* --- inputs ---

\* the largest number of parts the authority of a /fetch/ path is made of
MaxAuthorityParts == 2

EvilHost == <<"e", "v", "i", "l", ".", "c", "o", "m">>
AuthorityParts == {ApiHost, EvilHost, <<"u", "@">>, <<":", "4", "4", "3">>,
                   <<":", "8", "4", "4", "3">>, <<".">>}
Authorities ==
    {Flatten(parts) : parts \in UNION {[1..n -> AuthorityParts] : n \in 0..MaxAuthorityParts}}
PathSuffixes == {<<>>, <<"/", "c", "l", "i", "e", "n", "t", "/", "v", "4", "/", "x">>, <<"/">> \o ApiHost}

Pathnames ==
    {<<"/">>, AppJsPath, <<"/", "f", "e", "t", "c", "h">>, <<"/", "x">>}
    \cup {FetchPrefix \o a \o p : a \in Authorities, p \in PathSuffixes}

HeaderPool == << <<<<"a", "c", "c", "e", "p", "t">>, <<"*">>>>, <<CfPrefix, <<"e">>>>,
                 <<CfConnectingIp, <<"1">>>>, <<<<"c", "f", "x">>, <<"y">>>>, <<<<"x", "-", "c", "f", "-", "a">>, <<"z">>>> >>

\* header lists as a Headers object iterates them: sorted by name, one entry a name
HeaderLists ==
    {SelectSeq(HeaderPool, LAMBDA h : h \in chosen) :
        chosen \in SUBSET {HeaderPool[i] : i \in DOMAIN HeaderPool}}

Methods == {"GET", "POST", "DELETE"}

Requests ==
    {[method |-> m, pathname |-> p, headers |-> h] :
        m \in Methods, p \in Pathnames, h \in HeaderLists}

UpstreamOutcomes ==
    {Throw("TypeError: network error"),
     Return(Response(200, "application/json", "upstream body")),
     Return(Response(403, "application/json", "upstream error"))}

UpstreamAnswers(request) ==
    IF UpstreamRequest(request) # <<>> THEN UpstreamOutcomes ELSE {NotCalled}

TailFetchCall ==
    /\ pc = "idle"
    /\ \E request \in Requests :
         \E upstream \in UpstreamAnswers(request) :
           /\ inp' = [request |-> request]
           /\ out' = TailFetch(request, upstream)
           /\ ext' = [i \in DOMAIN UpstreamRequest(request) |->
                        [call |-> "fetch", request |-> UpstreamRequest(request)[i],
                         result |-> upstream]]
    /\ op' = "fetch"
    /\ pc' = "done"
    /\ UNCHANGED <<dir, configFilePath>>

NextTail == TailFetchCall

SpecTail == Init /\ [][NextTail]_vars

\* ------------------------------------------------------------------------
\* Claims about the tail web handler
\* ------------------------------------------------------------------------

\* a request for /fetch/<path> in which 'https://' + <path> is a URL
FetchPathRequest ==
    /\ pc = "done" /\ op = "fetch"
    /\ StartsWith(inp.request.pathname, FetchPrefix)
    /\ UrlOrigin(HttpsScheme \o SubstringFrom(inp.request.pathname, Len(FetchPrefix)))
         # InvalidUrl

FetchOrigin ==
    UrlOrigin(HttpsScheme \o SubstringFrom(inp.request.pathname, Len(FetchPrefix)))

\* C5: a request for /fetch/<path> is proxied upstream only when 'https://' + <path>
\* has the origin https://api.cloudflare.com; for every other origin no upstream request
\* is made and the handler answers with a response of status 400
C5_Original ==
    FetchPathRequest =>
        /\ ext # <<>> => FetchOrigin = ApiOrigin
        /\ FetchOrigin # ApiOrigin =>
              /\ ext = <<>>
              /\ out.kind = "return"
              /\ out.value.status = 400

\* the handler has proxied a /fetch/ request
Proxied ==
    /\ FetchPathRequest
    /\ ext # <<>>

HeaderSet(headers) == {headers[i] : i \in DOMAIN headers}

\* C6: the upstream request of a proxied /fetch/ request carries no header whose name
\* starts with 'cf-', carries every other header of the incoming request with its value,
\* and carries the incoming request's method
C6_ProxiedHeaders ==
    Proxied =>
        /\ Len(ext) = 1
        /\ ext[1].request.method = inp.request.method
        /\ \A h \in HeaderSet(ext[1].request.headers) : ~StartsWith(h[1], CfPrefix)
        /\ \A h \in HeaderSet(inp.request.headers) :
              ~StartsWith(h[1], CfPrefix) => h \in HeaderSet(ext[1].request.headers)

\* a proxied POST with a cf-connecting-ip header, dropped, and an x-cf-a header, kept
C6_Witness ==
    /\ Proxied
    /\ inp.request.method = "POST"
    /\ \E h \in HeaderSet(inp.request.headers) : h[1] = CfConnectingIp
    /\ \E h \in HeaderSet(inp.request.headers) :
          /\ Includes(h[1], CfPrefix)
          /\ h \in HeaderSet(ext[1].request.headers)

\* ------------------------------------------------------------------------
\* loadConfig / findConfigFilePath / loadConfigFromFile  (config_loader.ts 20-50, 98-137)
\* ------------------------------------------------------------------------

WhiteSpace == {" ", "\t", "\n"}

\* String.prototype.trim
RECURSIVE Trim(_)
Trim(s) ==
    IF s = <<>> THEN s
    ELSE IF Head(s) \in WhiteSpace THEN Trim(Tail(s))
    ELSE IF s[Len(s)] \in WhiteSpace THEN Trim(SubSeq(s, 1, Len(s) - 1))
    ELSE s

\* line 22: the trimmed --config option when it is a non-blank string
OptionConfigFilePath(options) ==
    IF IsString(options.config) /\ Len(Trim(options.config.v)) > 0
    THEN Str(Trim(options.config.v))
    ELSE Undefined

\* a faulty variant of ParentDir: two levels up at a time
ParentDirSkipping(d) == IF d <= 1 THEN 0 ELSE d - 2

\* line 123: resolve(dir, '..'); a directory is its depth below the root, and the
\* parent of the root is the root
ParentDir(d) == IF d = 0 THEN 0 ELSE d - 1

\* line 119: join(dir, CONFIG_FILE_NAME)
ConfigFileIn(d) == [t |-> "path", v |-> <<d, ".denoflare">>]

\* cli/fs_util.ts (not among the sources): whether a file exists at the path; probing
\* can fail with PermissionDenied or with another error
fileExists(status) ==
    CASE status = "file" -> Return(TRUE)
      [] status = "absent" -> Return(FALSE)
      [] status = "denied" -> Throw("PermissionDenied")
      [] status = "error" -> Throw("Error")

EmptyMap == [n \in {} |-> n]
EmptyConfig == EmptyMap

\* config.profiles || {}
ProfilesOf(config) ==
    IF "profiles" \in DOMAIN config THEN config["profiles"] ELSE EmptyMap

\* lines 100-113: the file's text parsed and checked, every failure rethrown
loadConfigFromFile(file) ==
    IF file.state \in {"NotFound", "invalid"} THEN Throw("Error loading config")
    ELSE Return(file.config)

\* Deno.env.get(name) for a variable of the environment
EnvGet(variable) ==
    CASE variable.access = "denied" -> Throw("PermissionDenied")
      [] variable.access = "error" -> Throw("Error")
      [] OTHER -> Return(variable.value)

\* (Deno.env.get(name) || '').trim()
OrEmptyTrimmed(value) == IF IsString(value) THEN Trim(value.v) ELSE <<>>

\* a faulty variant of EnhanceWithEnv: the environment is used whatever the config holds
EnhanceWithEnvAlways(config, env) ==
    LET account == EnvGet(env.CF_ACCOUNT_ID)
        token == EnvGet(env.CF_API_TOKEN)
    IN  IF account.kind = "throw" \/ token.kind = "throw" THEN Return(config)
        ELSE IF Len(OrEmptyTrimmed(account.value)) > 0 /\ Len(OrEmptyTrimmed(token.value)) > 0
        THEN Return([f \in DOMAIN config \cup {"profiles"} |->
                        IF f = "profiles"
                        THEN (<<"e", "n", "v">> :>
                                [accountId |-> OrEmptyTrimmed(account.value),
                                 apiToken |-> OrEmptyTrimmed(token.value),
                                 default |-> "absent"])
                        ELSE config[f]])
        ELSE Return(config)

\* a faulty variant of EnhanceWithEnv: every error of Deno.env.get is swallowed
EnhanceWithEnvSwallowing(config, env) ==
    IF Cardinality(DOMAIN ProfilesOf(config)) = 0
    THEN LET account == EnvGet(env.CF_ACCOUNT_ID)
             token == EnvGet(env.CF_API_TOKEN)
         IN  IF account.kind = "throw" \/ token.kind = "throw" THEN Return(config)
             ELSE IF /\ Len(OrEmptyTrimmed(account.value)) > 0
                     /\ Len(OrEmptyTrimmed(token.value)) > 0
             THEN Return([f \in DOMAIN config \cup {"profiles"} |->
                             IF f = "profiles"
                             THEN (<<"e", "n", "v">> :>
                                     [accountId |-> OrEmptyTrimmed(account.value),
                                      apiToken |-> OrEmptyTrimmed(token.value),
                                      default |-> "absent"])
                             ELSE config[f]])
             ELSE Return(config)
    ELSE Return(config)

\* lines 27-49: the config enhanced with the environment's credentials when it has no
\* profiles; PermissionDenied from Deno.env.get is caught, any other error is rethrown
EnhanceWithEnv(config, env) ==
    IF Cardinality(DOMAIN ProfilesOf(config)) = 0
    THEN LET account == EnvGet(env.CF_ACCOUNT_ID)
             token == EnvGet(env.CF_API_TOKEN)
         IN  IF account.kind = "throw"
             THEN IF account.value = "PermissionDenied" THEN Return(config) ELSE account
             ELSE IF token.kind = "throw"
             THEN IF token.value = "PermissionDenied" THEN Return(config) ELSE token
             ELSE IF /\ Len(OrEmptyTrimmed(account.value)) > 0
                     /\ Len(OrEmptyTrimmed(token.value)) > 0
             THEN Return([f \in DOMAIN config \cup {"profiles"} |->
                             IF f = "profiles"
                             THEN (<<"e", "n", "v">> :>
                                     [accountId |-> OrEmptyTrimmed(account.value),
                                      apiToken |-> OrEmptyTrimmed(token.value),
                                      default |-> "absent"])
                             ELSE config[f]])
             ELSE Return(config)
    ELSE Return(config)

\* the calls of Deno.env.get made by EnhanceWithEnv, in order, with their results
EnvCalls(config, env) ==
    IF Cardinality(DOMAIN ProfilesOf(config)) = 0
    THEN <<[call |-> "Deno.env.get", arg |-> "CF_ACCOUNT_ID",
            result |-> EnvGet(env.CF_ACCOUNT_ID)]>>
         \o (IF EnvGet(env.CF_ACCOUNT_ID).kind = "throw" THEN <<>>
             ELSE <<[call |-> "Deno.env.get", arg |-> "CF_API_TOKEN",
                     result |-> EnvGet(env.CF_API_TOKEN)]>>)
    ELSE <<>>

\* --- inputs ---

\* the largest depth of the working directory below the filesystem root
MaxDepth == 2

OptionConfigs == {Undefined, Str(<<" ", "\t">>), Str(<<" ", "c", "f", " ">>), NonString}

CwdOutcomes == {Return(d) : d \in 0..MaxDepth} \cup {Throw("PermissionDenied"), Throw("Error")}

ProbeStatuses == {"file", "absent", "denied", "error"}

\* what probing for .denoflare finds in each directory from the root to the working directory
FileSystems(cwd) ==
    IF cwd.kind = "return" THEN [0..cwd.value -> ProbeStatuses] ELSE {EmptyMap}

SingleProfileMap ==
    (<<"p">> :> [accountId |-> <<"A", "p">>, apiToken |-> <<"T", "p">>, default |-> "absent"])

\* the configs a config file can hold, each marked with the file it comes from
FileConfigs(path) ==
    {("scripts" :> path),
     ("profiles" :> EmptyMap) @@ ("scripts" :> path),
     ("profiles" :> SingleProfileMap) @@ ("scripts" :> path)}
    \cup (IF path.t = "string" THEN {EmptyConfig} ELSE {})

FileOutcomes(path) ==
    {[state |-> "valid", config |-> c] : c \in FileConfigs(path)}
    \cup {[state |-> "invalid", config |-> EmptyConfig]}
    \cup (IF path.t = "string" THEN {[state |-> "NotFound", config |-> EmptyConfig]} ELSE {})

EnvVariables ==
    {[value |-> v, access |-> "granted"] :
        v \in {Undefined, Str(<<" ">>), Str(<<" ", "V", "\n">>)}}
    \cup {[value |-> Str(<<" ", "V", "\n">>), access |-> a] : a \in {"denied", "error"}}

Environments == [CF_ACCOUNT_ID : EnvVariables, CF_API_TOKEN : EnvVariables]

\* --- actions ---

\* lines 21-23 and 116-117: the --config option is examined; without a path from it
\* findConfigFilePath starts at Deno.cwd()
LoadConfigStart ==
    /\ pc = "idle"
    /\ \E config \in OptionConfigs, cwd \in CwdOutcomes :
         \E fs \in FileSystems(cwd) :
           LET options == [config |-> config]
               path == OptionConfigFilePath(options)
           IN  /\ inp' = [options |-> options, cwd |-> cwd, fs |-> fs]
               /\ IF path # Undefined
                  THEN /\ configFilePath' = path
                       /\ pc' = "load"
                       /\ ext' = <<>>
                       /\ UNCHANGED <<dir, out>>
                  ELSE /\ ext' = <<[call |-> "Deno.cwd", arg |-> "", result |-> cwd]>>
                       /\ IF cwd.kind = "return"
                          THEN /\ dir' = cwd.value
                               /\ pc' = "walk"
                               /\ UNCHANGED <<configFilePath, out>>
                          ELSE IF cwd.value = "PermissionDenied"
                          THEN /\ configFilePath' = Undefined
                               /\ pc' = "load"
                               /\ UNCHANGED <<dir, out>>
                          ELSE /\ out' = cwd
                               /\ pc' = "done"
                               /\ UNCHANGED <<dir, configFilePath>>
    /\ op' = "loadConfig"

\* lines 118-136: one iteration of the loop of findConfigFilePath
WalkStep ==
    /\ pc = "walk"
    /\ LET exists == fileExists(inp.fs[dir])
           parentDir == ParentDir(dir)
       IN  /\ ext' = Append(ext, [call |-> "fileExists", arg |-> dir, result |-> exists])
           /\ IF exists.kind = "throw"
              THEN IF exists.value = "PermissionDenied"
                   THEN /\ configFilePath' = Undefined
                        /\ pc' = "load"
                        /\ UNCHANGED <<dir, out>>
                   ELSE /\ out' = exists
                        /\ pc' = "done"
                        /\ UNCHANGED <<dir, configFilePath>>
              ELSE IF exists.value
              THEN /\ configFilePath' = ConfigFileIn(dir)
                   /\ pc' = "load"
                   /\ UNCHANGED <<dir, out>>
              ELSE IF parentDir = dir
              THEN /\ configFilePath' = Undefined
                   /\ pc' = "load"
                   /\ UNCHANGED <<dir, out>>
              ELSE /\ dir' = parentDir
                   /\ UNCHANGED <<pc, configFilePath, out>>
    /\ UNCHANGED <<op, inp>>

\* lines 25-49: the file is loaded, the config enhanced with the environment, returned
LoadStep ==
    /\ pc = "load"
    /\ \E env \in Environments :
         \E file \in (IF configFilePath # Undefined THEN FileOutcomes(configFilePath)
                      ELSE {[state |-> "none", config |-> EmptyConfig]}) :
           LET loaded == IF configFilePath # Undefined THEN loadConfigFromFile(file)
                         ELSE Return(EmptyConfig)
               loadCalls == IF configFilePath # Undefined
                            THEN <<[call |-> "loadConfigFromFile", arg |-> configFilePath,
                                    result |-> loaded]>>
                            ELSE <<>>
           IN  /\ inp' = [options |-> inp.options, cwd |-> inp.cwd, fs |-> inp.fs,
                          env |-> env]
               /\ IF loaded.kind = "throw"
                  THEN /\ out' = loaded
                       /\ ext' = ext \o loadCalls
                  ELSE /\ out' = EnhanceWithEnv(loaded.value, env)
                       /\ ext' = ext \o loadCalls \o EnvCalls(loaded.value, env)
    /\ pc' = "done"
    /\ UNCHANGED <<op, dir, configFilePath>>

NextLoad == LoadConfigStart \/ WalkStep \/ LoadStep

SpecLoad == Init /\ [][NextLoad]_vars

\* an asynchronous function that has been called runs to its end
SpecLoadFair == SpecLoad /\ WF_vars(NextLoad)

\* ------------------------------------------------------------------------
\* Claims about loadConfig
\* ------------------------------------------------------------------------

\* loadConfig has ended after reaching the loading of the config (lines 25-49)
LoadReached == pc = "done" /\ op = "loadConfig" /\ "env" \in DOMAIN inp

CallsOf(name) == {i \in DOMAIN ext : ext[i].call = name}

\* what loadConfigFromFile gave, or the empty config when no file path was known
LoadedOutcome ==
    IF CallsOf("loadConfigFromFile") # {}
    THEN ext[CHOOSE i \in CallsOf("loadConfigFromFile") : TRUE].result
    ELSE Return(EmptyConfig)

Loaded == LoadedOutcome.value

\* the value the environment holds for a variable, trimmed ('' when it is not set)
HeldTrimmed(variable) ==
    IF variable.value.t = "string" THEN Trim(variable.value.v) ELSE <<>>

BothHeld ==
    /\ Len(HeldTrimmed(inp.env.CF_ACCOUNT_ID)) > 0
    /\ Len(HeldTrimmed(inp.env.CF_API_TOKEN)) > 0

BothReadable ==
    /\ inp.env.CF_ACCOUNT_ID.access = "granted"
    /\ inp.env.CF_API_TOKEN.access = "granted"

\* the returned config is the loaded one with the single profile 'env' put in
ReturnsWithEnvProfile ==
    /\ out.kind = "return"
    /\ DOMAIN out.value = DOMAIN Loaded \cup {"profiles"}
    /\ \A f \in DOMAIN Loaded : f # "profiles" => out.value[f] = Loaded[f]
    /\ DOMAIN out.value["profiles"] = {<<"e", "n", "v">>}
    /\ out.value["profiles"][<<"e", "n", "v">>].accountId = HeldTrimmed(inp.env.CF_ACCOUNT_ID)
    /\ out.value["profiles"][<<"e", "n", "v">>].apiToken = HeldTrimmed(inp.env.CF_API_TOKEN)

\* the three cases of C7, given when the variables count as usable
EnvUse(usable) ==
    (LoadReached /\ LoadedOutcome.kind = "return") =>
        /\ DOMAIN ProfilesOf(Loaded) # {} =>
              /\ out = Return(Loaded)
              /\ CallsOf("Deno.env.get") = {}
        /\ (DOMAIN ProfilesOf(Loaded) = {} /\ usable) => ReturnsWithEnvProfile
        /\ (DOMAIN ProfilesOf(Loaded) = {} /\ ~BothHeld /\ out.kind = "return") =>
              out.value = Loaded

SearchCalls == CallsOf("Deno.cwd") \cup CallsOf("fileExists")

\* C9: PermissionDenied raised while reading the environment variables or while
\* searching for the config file is not fatal: loadConfig goes on as if the variables
\* (no env profile is added) or the config file (no path is known, the config starts
\* empty) did not exist; any other error raised at those points is propagated
C9_PermissionDenied ==
    (pc = "done" /\ op = "loadConfig") =>
        /\ (\E i \in CallsOf("Deno.env.get") : ext[i].result = Throw("PermissionDenied"))
              => out = Return(Loaded)
        /\ (\E i \in SearchCalls : ext[i].result = Throw("PermissionDenied")) =>
              /\ LoadReached
              /\ configFilePath = Undefined
              /\ CallsOf("loadConfigFromFile") = {}
              /\ out.kind = "return" =>
                    \/ out.value = EmptyConfig
                    \/ /\ DOMAIN out.value = {"profiles"}
                       /\ DOMAIN out.value["profiles"] = {<<"e", "n", "v">>}
        /\ \A i \in CallsOf("Deno.env.get") \cup SearchCalls :
              (ext[i].result.kind = "throw" /\ ext[i].result.value # "PermissionDenied")
                  => out = ext[i].result

\* the search was denied in the working directory's parent chain and reading the
\* environment was denied too: loadConfig returns the empty config
C9_Witness ==
    /\ pc = "done" /\ op = "loadConfig"
    /\ \E i \in CallsOf("fileExists") : ext[i].result = Throw("PermissionDenied")
    /\ \E i \in CallsOf("Deno.env.get") : ext[i].result = Throw("PermissionDenied")
    /\ out = Return(EmptyConfig)

\* loadConfig searches for the config file: no non-blank --config option
WalkTaken == op = "loadConfig" /\ OptionConfigFilePath(inp.options) = Undefined

WalkEnded == WalkTaken /\ pc \in {"load", "done"} /\ inp.cwd.kind = "return"

\* the directories examined, in the order of their examination
Examined == [i \in 1..Cardinality(CallsOf("fileExists")) |->
                ext[CHOOSE j \in CallsOf("fileExists") :
                        Cardinality({k \in CallsOf("fileExists") : k <= j}) = i].arg]

\* the directories from the working directory up to directory d, in that order
UpTo(d) == [i \in 1..(inp.cwd.value - d + 1) |-> inp.cwd.value - i + 1]

DirsWith(statuses) == {d \in 0..inp.cwd.value : inp.fs[d] \in statuses}

\* a non-blank --config option is the path, and nothing is searched
Bypass ==
    (op = "loadConfig" /\ OptionConfigFilePath(inp.options) # Undefined) =>
        /\ pc \in {"load", "done"}
        /\ configFilePath = Str(Trim(inp.options.config.v))
        /\ SearchCalls = {}

\* C10 as stated, for a walk that has ended: the path is that of the .denoflare file of
\* the nearest directory that has one, the directories above it not being examined;
\* without such a directory the root has been examined and the path is undefined
C10_Original ==
    /\ Bypass
    /\ WalkEnded =>
          IF DirsWith({"file"}) # {}
          THEN /\ configFilePath = ConfigFileIn(Max(DirsWith({"file"})))
               /\ Examined = UpTo(Max(DirsWith({"file"})))
          ELSE /\ configFilePath = Undefined
               /\ Examined = UpTo(0)

\* the result of a walk that has ended, failures of the examination included
WalkResult ==
    WalkEnded =>
        IF DirsWith({"file", "denied", "error"}) # {}
        THEN LET nearest == Max(DirsWith({"file", "denied", "error"}))
             IN  /\ Examined = UpTo(nearest)
                 /\ inp.fs[nearest] = "file" => configFilePath = ConfigFileIn(nearest)
                 /\ inp.fs[nearest] = "denied" => configFilePath = Undefined
                 /\ inp.fs[nearest] = "error" => (pc = "done" /\ out = Throw("Error"))
        ELSE /\ configFilePath = Undefined
             /\ Examined = UpTo(0)

\* C10 amended: the walk goes from the working directory up through its parents and
\* always ends; it ends at the nearest directory that has a .denoflare file, returning
\* its path, or whose examination fails (undefined when permission is denied, the error
\* propagated otherwise), the directories above not being examined, and it returns
\* undefined once the root has been examined without finding one; a non-blank --config
\* option bypasses the walk
C10_Walk ==
    /\ [](Bypass /\ WalkResult)
    /\ [][pc = "walk" => (pc' # "walk" \/ dir' < dir)]_vars
    /\ (pc = "walk") ~> (pc # "walk")

\* from depth 2, nothing there, a file at depth 1 and another in the root: the file at
\* depth 1 is the one loaded
C10_Witness ==
    /\ pc = "done" /\ WalkTaken
    /\ inp.cwd = Return(2)
    /\ inp.fs[2] = "absent" /\ inp.fs[1] = "file" /\ inp.fs[0] = "file"
    /\ configFilePath = ConfigFileIn(1)
    /\ Examined = <<2, 1>>

\* ------------------------------------------------------------------------
\* ApiKVNamespace  (part_000 6-76)
\* ------------------------------------------------------------------------

Null == [t |-> "null", v |-> <<>>]
NotImplemented == "not implemented"

\* JSON.parse(new Bytes(bytes).utf8()): the parsed value, or a SyntaxError
JsonParse(bytes) ==
    IF bytes.text = "json" THEN Return([t |-> "object", v |-> bytes.id])
    ELSE Throw("SyntaxError")

\* bytes.buffer
BufferOf(bytes) == [t |-> "ArrayBuffer", v |-> bytes.id]

OptsType(opts) == IF opts = Undefined THEN "none" ELSE opts.type

\* a faulty variant of KVGet: type 'json' is not implemented
KVGetWithoutJson(kv, opts) ==
    IF kv.kind = "throw" THEN kv
    ELSE IF kv.value = Undefined THEN Return(Null)
    ELSE IF OptsType(opts) = "arrayBuffer" THEN Return(BufferOf(kv.value))
    ELSE Throw(NotImplemented)

\* lines 30-40: get(key, opts); kv is the outcome of getKeyValue
KVGet(kv, opts) ==
    IF kv.kind = "throw" THEN kv
    ELSE IF kv.value = Undefined THEN Return(Null)
    ELSE IF OptsType(opts) = "arrayBuffer" THEN Return(BufferOf(kv.value))
    ELSE IF OptsType(opts) = "json" THEN JsonParse(kv.value)
    ELSE Throw(NotImplemented)

\* metadata || null
OrNull(metadata) == IF metadata = Undefined THEN Null ELSE metadata

\* lines 47-62: getWithMetadata(key, opts); kv and md are the outcomes of getKeyValue
\* and of getKeyMetadata
KVGetWithMetadata(kv, md, opts) ==
    IF kv.kind = "throw" THEN kv
    ELSE IF kv.value = Undefined THEN Return(Null)
    ELSE IF md.kind = "throw" THEN md
    ELSE IF OptsType(opts) = "arrayBuffer"
    THEN Return([value |-> BufferOf(kv.value), metadata |-> OrNull(md.value)])
    ELSE IF OptsType(opts) = "json"
    THEN IF JsonParse(kv.value).kind = "throw" THEN JsonParse(kv.value)
         ELSE Return([value |-> JsonParse(kv.value).value, metadata |-> OrNull(md.value)])
    ELSE Throw(NotImplemented)

\* lines 64-74: put, delete and list
KVPut(key, value, opts) == Throw(NotImplemented)
KVDelete(key) == Throw(NotImplemented)
KVList(opts) == Throw(NotImplemented)

\* the upstream calls of get and getWithMetadata, in order, with their results
KVGetCalls(ns, key, kv) ==
    <<[call |-> "getKeyValue", arg |-> [accountId |-> ns.accountId,
        namespaceId |-> ns.namespaceId, key |-> key, apiToken |-> ns.apiToken],
       result |-> kv]>>

\* a faulty variant of KVGetWithMetadataCalls: the metadata is requested whatever the
\* value request gave
KVGetWithMetadataCallsEager(ns, key, kv, md) ==
    KVGetCalls(ns, key, kv)
    \o <<[call |-> "getKeyMetadata", arg |-> [accountId |-> ns.accountId,
            namespaceId |-> ns.namespaceId, key |-> key, apiToken |-> ns.apiToken],
           result |-> md]>>

KVGetWithMetadataCalls(ns, key, kv, md) ==
    KVGetCalls(ns, key, kv)
    \o (IF kv.kind = "return" /\ kv.value # Undefined
        THEN <<[call |-> "getKeyMetadata", arg |-> [accountId |-> ns.accountId,
                 namespaceId |-> ns.namespaceId, key |-> key, apiToken |-> ns.apiToken],
                result |-> md]>>
        ELSE <<>>)

\* --- inputs ---

\* lines 12-16: the instances
KVNamespaces ==
    {[accountId |-> <<"A", "1">>, apiToken |-> <<"T", "1">>, namespaceId |-> <<"N", "1">>],
     [accountId |-> <<"A", "2">>, apiToken |-> <<"T", "2">>, namespaceId |-> <<"N", "2">>]}

KVKeys == {<<"k">>, <<"k", "/", "2">>}
KVTypes == {"none", "text", "json", "arrayBuffer", "stream"}
KVOpts == {Undefined} \cup {[type |-> t] : t \in KVTypes}
KVBytes == {[text |-> "json", id |-> "b1"], [text |-> "garbage", id |-> "b2"]}
KeyValueOutcomes ==
    {Throw("api error"), Return(Undefined)} \cup {Return(b) : b \in KVBytes}
KeyMetadataOutcomes ==
    {Throw("api error"), Return(Undefined), Return([t |-> "object", v |-> "metadata"])}
KeyMetadataAnswers(kv) ==
    IF kv.kind = "return" /\ kv.value # Undefined THEN KeyMetadataOutcomes ELSE {NotCalled}
KVValues == {Str(<<"v">>), [t |-> "ArrayBuffer", v |-> "b1"]}
KVPutOpts == {Undefined, [expirationTtl |-> "ttl"]}
KVListOpts == {Undefined, [prefix |-> <<"k">>]}

\* --- actions ---

KVGetCall ==
    /\ pc = "idle"
    /\ \E ns \in KVNamespaces, key \in KVKeys, opts \in KVOpts, kv \in KeyValueOutcomes :
         /\ inp' = [ns |-> ns, key |-> key, opts |-> opts]
         /\ out' = KVGet(kv, opts)
         /\ ext' = KVGetCalls(ns, key, kv)
    /\ op' = "get"
    /\ pc' = "done"
    /\ UNCHANGED <<dir, configFilePath>>

KVGetWithMetadataCall ==
    /\ pc = "idle"
    /\ \E ns \in KVNamespaces, key \in KVKeys, opts \in KVOpts, kv \in KeyValueOutcomes :
         \E md \in KeyMetadataAnswers(kv) :
           /\ inp' = [ns |-> ns, key |-> key, opts |-> opts]
           /\ out' = KVGetWithMetadata(kv, md, opts)
           /\ ext' = KVGetWithMetadataCalls(ns, key, kv, md)
    /\ op' = "getWithMetadata"
    /\ pc' = "done"
    /\ UNCHANGED <<dir, configFilePath>>

KVPutCall ==
    /\ pc = "idle"
    /\ \E ns \in KVNamespaces, key \in KVKeys, value \in KVValues, opts \in KVPutOpts :
         /\ inp' = [ns |-> ns, key |-> key, value |-> value, opts |-> opts]
         /\ out' = KVPut(key, value, opts)
    /\ ext' = <<>>
    /\ op' = "put"
    /\ pc' = "done"
    /\ UNCHANGED <<dir, configFilePath>>

KVDeleteCall ==
    /\ pc = "idle"
    /\ \E ns \in KVNamespaces, key \in KVKeys :
         /\ inp' = [ns |-> ns, key |-> key]
         /\ out' = KVDelete(key)
    /\ ext' = <<>>
    /\ op' = "delete"
    /\ pc' = "done"
    /\ UNCHANGED <<dir, configFilePath>>

KVListCall ==
    /\ pc = "idle"
    /\ \E ns \in KVNamespaces, opts \in KVListOpts :
         /\ inp' = [ns |-> ns, opts |-> opts]
         /\ out' = KVList(opts)
    /\ ext' = <<>>
    /\ op' = "list"
    /\ pc' = "done"
    /\ UNCHANGED <<dir, configFilePath>>

NextKV == KVGetCall \/ KVGetWithMetadataCall \/ KVPutCall \/ KVDeleteCall \/ KVListCall

SpecKV == Init /\ [][NextKV]_vars

\* ------------------------------------------------------------------------
\* Claims about ApiKVNamespace
\* ------------------------------------------------------------------------

\* the four abstract operations: getWithMetadata is get returning the metadata too
KVAbstractOperations == {"get", "put", "delete", "list"}

\* an abstract operation is unimplemented when each of its calls fails with 'not
\* implemented', whatever the arguments and whatever the upstream holds
KVUnimplemented ==
    {o \in KVAbstractOperations :
        CASE o = "get" ->
               /\ \A kv \in KeyValueOutcomes, opts \in KVOpts :
                     KVGet(kv, opts) = Throw(NotImplemented)
               /\ \A kv \in KeyValueOutcomes, md \in KeyMetadataOutcomes, opts \in KVOpts :
                     KVGetWithMetadata(kv, md, opts) = Throw(NotImplemented)
          [] o = "put" ->
               \A key \in KVKeys, value \in KVValues, opts \in KVPutOpts :
                   KVPut(key, value, opts) = Throw(NotImplemented)
          [] o = "delete" -> \A key \in KVKeys : KVDelete(key) = Throw(NotImplemented)
          [] o = "list" -> \A opts \in KVListOpts : KVList(opts) = Throw(NotImplemented)}

KVCallDone == pc = "done" /\ op \in {"get", "getWithMetadata", "put", "delete", "list"}

AbstractOp == IF op = "getWithMetadata" THEN "get" ELSE op

\* a supported call of an implemented operation: the types the adapter handles
SupportedCall ==
    /\ KVCallDone
    /\ AbstractOp \notin KVUnimplemented
    /\ OptsType(inp.opts) \in {"arrayBuffer", "json"}

\* what the calls of the operations do: an unimplemented operation fails with 'not
\* implemented' without an upstream call; a supported call of an implemented operation
\* asks the upstream API for the key with the instance's credentials, does not fail
\* with 'not implemented', and returns what the upstream API gave: its error, null
\* when it has no value, and otherwise the value as ArrayBuffer or as parsed JSON
KVCallBehaviour ==
    /\ (KVCallDone /\ AbstractOp \in KVUnimplemented) =>
          (out = Throw(NotImplemented) /\ ext = <<>>)
    /\ SupportedCall =>
          /\ ext # <<>>
          /\ ext[1].call = "getKeyValue"
          /\ ext[1].arg = [accountId |-> inp.ns.accountId, namespaceId |-> inp.ns.namespaceId,
                           key |-> inp.key, apiToken |-> inp.ns.apiToken]
          /\ out # Throw(NotImplemented)
          /\ ext[1].result.kind = "throw" => out = ext[1].result
          /\ ext[1].result = Return(Undefined) => out = Return(Null)
          /\ (ext[1].result.kind = "return" /\ ext[1].result.value # Undefined
                /\ out.kind = "return") =>
                LET value == IF op = "get" THEN out.value ELSE out.value.value
                IN  /\ value.v = ext[1].result.value.id
                    /\ value.t = IF OptsType(inp.opts) = "json" THEN "object"
                                 ELSE "ArrayBuffer"

\* C8 as stated: of the four abstract operations exactly two are unimplemented
C8_Original ==
    KVCallDone =>
        /\ Cardinality(KVAbstractOperations) = 4
        /\ Cardinality(KVUnimplemented) = 2
        /\ KVCallBehaviour

\* C8 amended: of the four abstract operations (get with its form getWithMetadata, put,
\* delete, list) exactly three, put, delete and list, are unimplemented
C8_Adapter ==
    KVCallDone =>
        /\ Cardinality(KVAbstractOperations) = 4
        /\ KVUnimplemented = {"put", "delete", "list"}
        /\ KVCallBehaviour

\* getWithMetadata of type 'json' returns the upstream value, parsed, with its metadata
C8_Witness ==
    /\ SupportedCall
    /\ op = "getWithMetadata"
    /\ Len(ext) = 2
    /\ out.kind = "return"
    /\ out.value.value = [t |-> "object", v |-> "b1"]

KVReadDone == pc = "done" /\ op \in {"get", "getWithMetadata"}

\* the value request reported that the key has no value
ValueAbsent == ext[1].result.kind = "return" /\ ext[1].result.value = Undefined

\* the value request returned a value
ValueReturned == ext[1].result.kind = "return" /\ ext[1].result.value # Undefined

\* C11: get and getWithMetadata request the key's value from the upstream API first;
\* when the upstream reports no value they return null whatever opts is (a missing
\* opts or type, 'text' and 'stream' included); the metadata request is made by
\* getWithMetadata only, after the value request, and only when that request returned
\* a value
C11_ValueFirst ==
    KVReadDone =>
        /\ Len(ext) >= 1
        /\ ext[1].call = "getKeyValue"
        /\ ext[1].arg.key = inp.key
        /\ \A i \in 2..Len(ext) :
              /\ ext[i].call = "getKeyMetadata"
              /\ ext[i].arg.key = inp.key
              /\ op = "getWithMetadata"
              /\ i = 2
              /\ ValueReturned
        /\ ValueAbsent => (out = Return(Null) /\ Len(ext) = 1)

\* getWithMetadata of type 'stream', which is not implemented, on a key without a
\* value: one upstream request, and null
C11_Witness ==
    /\ KVReadDone
    /\ op = "getWithMetadata"
    /\ OptsType(inp.opts) = "stream"
    /\ ValueAbsent
    /\ out = Return(Null)
    /\ Len(ext) = 1


\* ------------------------------------------------------------------------
\* The whole program: any one of the operations is invoked
\* ------------------------------------------------------------------------

Next == NextProfile \/ NextBinding \/ NextTail \/ NextLoad \/ NextKV

Spec == Init /\ [][Next]_vars

====
